---- MODULE Spec2Model ----
(***************************************************************************)
(* Model of src/handler_igp.py: the ingest handler (fetch_last_10,         *)
(* upsert_items, lambda_ingestar) and the list handler (lambda_listar) of   *)
(* the IGP seismic-event service, over a DynamoDB table keyed by "code".    *)
(*                                                                         *)
(* A Python value that may be None is modelled as a tuple: None is << >>    *)
(* and a value v is <<v>>.  A dict is a TLA+ record (a function on its      *)
(* keys) whose values are such tuples, so "key present with value None"     *)
(* and "key absent" are different things, as they are in Python.            *)
(***************************************************************************)
EXTENDS Integers, Sequences, FiniteSets, TLC

(* ---------------------------------------------------------------- bounds *)
MaxBatch == 2      \* longest feed answer modelled (the code asks for 10)
MaxClock == 2      \* the wall clock runs over 1..MaxClock
MaxUuid == 2       \* uuid4() calls modelled in one behaviour
TopN == 2          \* the [:10] of lambda_listar, scaled down
ScanLimit == 3     \* the Limit=50 of lambda_listar, scaled down

Procs == {1, 2}    \* ingest invocations that may be in flight

(* ------------------------------------------------------ Python's values *)
None == << >>
Some(v) == << v >>

\* bool(x) of an optional number / an optional string
TruthyNum(x) == x # None /\ x[1] # 0
TruthyStr(x) == x # None /\ x[1] # ""

\* dict.get(k)
Get(d, k) == IF k \in DOMAIN d THEN d[k] ELSE None

\* a float and the Decimal made from its str()
Float(s) == [type |-> "float", repr |-> s]

_to_decimal(x) ==
    IF x.type = "float" THEN [type |-> "Decimal", repr |-> x.repr] ELSE x

\* str(a.get(k) or "")
StrOrEmpty(x) == IF TruthyStr(x) THEN x ELSE Some("")

\* int(a[k]) if a.get(k) else None
IntOrNone(x) == IF TruthyNum(x) THEN x ELSE None

\* _to_decimal(a.get(k)) if a.get(k) is not None else None
DecOrNone(x) == IF x # None THEN Some(_to_decimal(x[1])) ELSE None

\* (mutant) one identifier drawn for the whole batch
Uuid4_Once(n) == "uuid-0"

\* str(uuid.uuid4()): the n-th identifier drawn; distinct draws differ and
\* none equals a code of the feed
Uuid4(n) == "uuid-" \o ToString(n)

(* ------------------------------------------------------------ the feed *)
\* The attributes of one feature, as a.get(k) sees them: None stands for a
\* missing attribute as well as for a null one (and for a null feature).
Attrs(code, fecha, fechaevento, prof, geo, txt) ==
    [code |-> code, fecha |-> fecha, fechaevento |-> fechaevento,
     prof |-> prof, lat |-> geo, lon |-> geo, magnitud |-> geo,
     mag |-> txt, hora |-> txt, profundidad |-> txt, ref |-> txt,
     int_ |-> txt, sentido |-> txt, departamento |-> txt]

\* (mutant) every item is given a generated code
NeedsUuid_Always(a) == TRUE

\* a.get("code") or uuid.uuid4(): the right side is evaluated for a missing,
\* null or empty code only
NeedsUuid(a) == ~TruthyStr(a.code)

\* how many uuid4() calls the loop has made once it is done with feats[i]
UuidCalls(feats, i) == Cardinality({j \in 1..i : NeedsUuid(feats[j])})

\* One iteration of the loop of fetch_last_10: the item dict built from the
\* attributes a, with the clock reading t and the uuid4() draw number u.
Normalize(a, t, u) ==
    [code |-> IF NeedsUuid(a) THEN Some(Uuid4(u)) ELSE a.code,
     reporte |-> StrOrEmpty(a.mag),
     fecha |-> IntOrNone(a.fecha),
     hora |-> StrOrEmpty(a.hora),
     fechaevento |-> IntOrNone(a.fechaevento),
     lat |-> DecOrNone(a.lat),
     lon |-> DecOrNone(a.lon),
     prof_km |-> a.prof,
     profundidad_cat |-> StrOrEmpty(a.profundidad),
     referencia |-> StrOrEmpty(a.ref),
     intensidad |-> StrOrEmpty(a.int_),
     sentido |-> StrOrEmpty(a.sentido),
     magnitud |-> DecOrNone(a.magnitud),
     departamento |-> StrOrEmpty(a.departamento),
     ingresado_ts |-> Some(t),
     source |-> Some("IGP-ArcGIS")]

\* fetch_last_10 after a successful request: feats is the feed's answer,
\* ts[i] the clock when item i is built, u0 the uuid4() draws made so far.
fetch_last_10(feats, ts, u0) ==
    [i \in 1..Len(feats) |->
        Normalize(feats[i], ts[i], u0 + UuidCalls(feats, i))]

(* ---------------------------------------------------------- the inputs *)
Sparse(c) == Attrs(c, None, None, None, None, None)
Full(c) == Attrs(c, Some(1), Some(2), Some(1), Some(Float("12.34")), Some("t"))
Zeros(c) == Attrs(c, Some(0), Some(0), Some(0), Some(Float("0.0")), Some(""))
Mixed(c) == Attrs(c, Some(1), None, Some(0), None, Some("t"))

\* the features the feed answers with in the ingest specification
FeedItems == {Sparse(Some("A")), Full(Some("A")), Full(Some("B"))}

\* all sequences over S of length 0..n
SeqsUpTo(S, n) == UNION {[1..k -> S] : k \in 0..n}

Payloads == SeqsUpTo(FeedItems, MaxBatch)

\* the features the normalizer is checked on: every kind of code (missing,
\* empty, natural) with every kind of attribute (missing, zero, empty, set)
NormCodes == {None, Some(""), Some("A"), Some("B")}
NormItems ==
    UNION {{Sparse(c), Full(c), Zeros(c), Mixed(c)} : c \in NormCodes}
NormPayloads == SeqsUpTo(NormItems, MaxBatch)

\* the answers two racing invocations draw from: both write code "A"
RacePayloads ==
    {<<Sparse(Some("A"))>>, <<Full(Some("A"))>>,
     <<Full(Some("B")), Sparse(Some("A"))>>}

\* The readings of time.time() in one run of the loop over n features, the
\* clock being at t0 or later when it starts: one reading per item, never
\* going back.
Stamps(n, t0) ==
    {ts \in [1..n -> t0..MaxClock] : \A i \in 1..n : \A j \in i..n : ts[i] <= ts[j]}

\* The same, the loop ending within the millisecond it began in.
OneStamp(n, t0) == {[i \in 1..n |-> t] : t \in t0..MaxClock}

\* how the clock runs during the loop: "item" for Stamps, "batch" for OneStamp
Readings(clock, n, t0) == IF clock = "item" THEN Stamps(n, t0) ELSE OneStamp(n, t0)

(* ------------------------------------------------------------ the state *)
VARIABLES
    store,        \* the items of the DynamoDB table
    now,          \* the wall clock
    uuidCtr,      \* uuid4() draws made so far
    pc,           \* per invocation: where lambda_ingestar is
    payload,      \* per invocation: the features the feed answered with
    items,        \* per invocation: the list fetch_last_10 returned
    pending,      \* per invocation: the batch writer's buffer, not yet stored
    resp,         \* per invocation: the response returned
    storeBefore,  \* per invocation: the table when the invocation began
    repeat,       \* per invocation: the feed answered as it did the last time
    outcome,      \* per invocation: "ok", "fetch_error" or "write_error"
    failed,       \* per invocation: the codes the store rejected
    lastWritten,  \* code -> the item most recently committed under it
    page,         \* lambda_listar: the items the scan returned
    listResp      \* lambda_listar: the response returned

ingestVars == <<now, uuidCtr, pc, payload, items, pending, resp, storeBefore,
                repeat, outcome, failed, lastWritten>>
listVars == <<page, listResp>>
vars == <<store, ingestVars, listVars>>

NoResp == [statusCode |-> 0, body |-> << >>]

InitIngest ==
    /\ now = 1
    /\ uuidCtr = 0
    /\ pc = [p \in Procs |-> "idle"]
    /\ payload = [p \in Procs |-> << >>]
    /\ items = [p \in Procs |-> << >>]
    /\ pending = [p \in Procs |-> {}]
    /\ resp = [p \in Procs |-> NoResp]
    /\ storeBefore = [p \in Procs |-> {}]
    /\ repeat = [p \in Procs |-> FALSE]
    /\ outcome = [p \in Procs |-> "none"]
    /\ failed = [p \in Procs |-> {}]
    /\ lastWritten = << >>

InitList ==
    /\ page = << >>
    /\ listResp = NoResp

Init ==
    /\ store = {}
    /\ InitIngest
    /\ InitList

(* ----------------------------------------------------------- the store *)
\* (mutant) a put that keeps what is stored and adds the item
PutItem_Append(table, it) == table \cup {it}

\* (mutant) a put that updates field by field: a null of the new item does
\* not erase the value stored
PutItem_Merge(table, it) ==
    LET old == {r \in table : r.code = it.code} IN
    IF old = {} THEN table \cup {it}
    ELSE LET o == CHOOSE r \in old : TRUE IN
         (table \ old) \cup
            {[k \in DOMAIN it |-> IF it[k] = None THEN o[k] ELSE it[k]]}

\* PutItem on a table whose key is "code": the item replaces the stored one
PutItem(table, it) == {r \in table : r.code # it.code} \cup {it}

\* (mutant) of the buffered items with one code the first one stays
Dedup_KeepFirst(its) ==
    {its[i] : i \in {k \in 1..Len(its) :
                        \A j \in 1..(k-1) : its[j].code # its[k].code}}

\* batch_writer(overwrite_by_pkeys=["code"]): of the buffered items with one
\* code only the last one put stays in the buffer
Dedup(its) ==
    {its[i] : i \in {k \in 1..Len(its) :
                        \A j \in (k+1)..Len(its) : its[j].code # its[k].code}}

Record(last, it) ==
    [c \in (DOMAIN last) \cup {it.code[1]} |->
        IF c = it.code[1] THEN it ELSE last[c]]

(* ------------------------------------------------------ lambda_ingestar *)
Ok200(its) ==
    [statusCode |-> 200, body |-> [ingresados |-> Len(its), items |-> its]]

Err500(e) == [statusCode |-> 500, body |-> [error |-> e]]

\* An invocation begins (from: the places it may begin at).  requests.get,
\* raise_for_status and r.json() went through; the loop of fetch_last_10 ran.
\* An empty list skips upsert_items and is answered at once.
FetchOk(p, from, feeds, clock) ==
    /\ pc[p] \in from
    /\ \E feats \in feeds : \E ts \in Readings(clock, Len(feats), now) :
         LET its == fetch_last_10(feats, ts, uuidCtr) IN
         /\ uuidCtr + UuidCalls(feats, Len(feats)) <= MaxUuid
         /\ uuidCtr' = uuidCtr + UuidCalls(feats, Len(feats))
         /\ now' = IF Len(feats) = 0 THEN now ELSE ts[Len(feats)]
         /\ repeat' = [repeat EXCEPT ![p] = outcome[p] = "ok" /\ feats = payload[p]]
         /\ payload' = [payload EXCEPT ![p] = feats]
         /\ items' = [items EXCEPT ![p] = its]
         /\ pending' = [pending EXCEPT ![p] = Dedup(its)]
         /\ IF Len(its) = 0
               THEN /\ pc' = [pc EXCEPT ![p] = "done"]
                    /\ resp' = [resp EXCEPT ![p] = Ok200(its)]
                    /\ outcome' = [outcome EXCEPT ![p] = "ok"]
               ELSE /\ pc' = [pc EXCEPT ![p] = "writing"]
                    /\ resp' = [resp EXCEPT ![p] = NoResp]
                    /\ outcome' = [outcome EXCEPT ![p] = "none"]
    /\ storeBefore' = [storeBefore EXCEPT ![p] = store]
    /\ failed' = [failed EXCEPT ![p] = {}]
    /\ UNCHANGED <<store, lastWritten, listVars>>

\* (mutant) the failure is swallowed and answered as an empty ingest
FetchFail_Swallowed(p, from) ==
    /\ pc[p] \in from
    /\ pc' = [pc EXCEPT ![p] = "done"]
    /\ resp' = [resp EXCEPT ![p] =
                   [statusCode |-> 200, body |-> [ingresados |-> 0, items |-> << >>]]]
    /\ outcome' = [outcome EXCEPT ![p] = "fetch_error"]
    /\ storeBefore' = [storeBefore EXCEPT ![p] = store]
    /\ repeat' = [repeat EXCEPT ![p] = FALSE]
    /\ failed' = [failed EXCEPT ![p] = {}]
    /\ UNCHANGED <<store, now, uuidCtr, payload, items, pending, lastWritten,
                   listVars>>

\* requests.get raised (transport error, timeout) or raise_for_status did:
\* the except branch answers 500 and upsert_items is never called
FetchFail(p, from) ==
    /\ pc[p] \in from
    /\ pc' = [pc EXCEPT ![p] = "done"]
    /\ resp' = [resp EXCEPT ![p] = Err500("fetch failed")]
    /\ outcome' = [outcome EXCEPT ![p] = "fetch_error"]
    /\ storeBefore' = [storeBefore EXCEPT ![p] = store]
    /\ repeat' = [repeat EXCEPT ![p] = FALSE]
    /\ failed' = [failed EXCEPT ![p] = {}]
    /\ UNCHANGED <<store, now, uuidCtr, payload, items, pending, lastWritten,
                   listVars>>

\* the store commits one buffered put of the batch (the puts of a
\* BatchWriteItem are atomic one by one, in no particular order)
BatchPut(p) ==
    /\ pc[p] = "writing"
    /\ \E it \in pending[p] :
         /\ store' = PutItem(store, it)
         /\ lastWritten' = Record(lastWritten, it)
         /\ pending' = [pending EXCEPT ![p] = pending[p] \ {it}]
    /\ UNCHANGED <<now, uuidCtr, pc, payload, items, resp, storeBefore, repeat,
                   outcome, failed, listVars>>

\* every put is committed: upsert_items returns and the handler answers 200
WriteOk(p) ==
    /\ pc[p] = "writing"
    /\ pending[p] = {}
    /\ pc' = [pc EXCEPT ![p] = "done"]
    /\ resp' = [resp EXCEPT ![p] = Ok200(items[p])]
    /\ outcome' = [outcome EXCEPT ![p] = "ok"]
    /\ UNCHANGED <<store, now, uuidCtr, payload, items, pending, storeBefore,
                   repeat, failed, lastWritten, listVars>>

\* the store rejects the puts still buffered: the batch writer raises, the
\* except branch answers 500 with str(e) and nothing else
WriteFail(p) ==
    /\ pc[p] = "writing"
    /\ pending[p] # {}
    /\ pc' = [pc EXCEPT ![p] = "done"]
    /\ resp' = [resp EXCEPT ![p] = Err500("write failed")]
    /\ outcome' = [outcome EXCEPT ![p] = "write_error"]
    /\ failed' = [failed EXCEPT ![p] = {it.code[1] : it \in pending[p]}]
    /\ UNCHANGED <<store, now, uuidCtr, payload, items, pending, storeBefore,
                   repeat, lastWritten, listVars>>

Ingest(p, from, feeds) ==
    \/ FetchOk(p, from, feeds, "batch")
    \/ FetchFail(p, from)
    \/ BatchPut(p)
    \/ WriteOk(p)
    \/ WriteFail(p)

(* -------------------------------------------------------- lambda_listar *)
\* table.scan(Limit=ScanLimit): the items of one page, in the store's order,
\* which is any order; the page is full whenever the table has enough items
Pages(table) ==
    LET n == IF Cardinality(table) < ScanLimit
                THEN Cardinality(table) ELSE ScanLimit
    IN {pg \in [1..n -> table] : \A i \in 1..n : \A j \in 1..n :
                                    pg[i] = pg[j] => i = j}

\* it.get("fechaevento") or it.get("ingresado_ts") or 0
sort_key(it) ==
    LET fe == Get(it, "fechaevento")
        ts == Get(it, "ingresado_ts")
    IN IF TruthyNum(fe) THEN fe[1] ELSE IF TruthyNum(ts) THEN ts[1] ELSE 0

\* s with x put behind the last element whose key is not below x's
InsertDesc(s, x) ==
    LET n == Cardinality({i \in 1..Len(s) : sort_key(s[i]) >= sort_key(x)})
    IN SubSeq(s, 1, n) \o <<x>> \o SubSeq(s, n + 1, Len(s))

\* sorted(s, key=sort_key, reverse=True): descending, equal keys in s's order
RECURSIVE SortedDesc(_)
SortedDesc(s) ==
    IF s = << >> THEN << >>
    ELSE InsertDesc(SortedDesc(SubSeq(s, 1, Len(s) - 1)), s[Len(s)])

\* [:n]
Take(s, n) == SubSeq(s, 1, IF Len(s) < n THEN Len(s) ELSE n)

ListOk200(its) ==
    [statusCode |-> 200, body |-> [count |-> Len(its), items |-> its]]

\* the scan went through: sort the page in memory, keep the first TopN
ListarOk ==
    /\ \E pg \in Pages(store) :
         /\ page' = pg
         /\ listResp' = ListOk200(Take(SortedDesc(pg), TopN))
    /\ UNCHANGED <<store, ingestVars>>

\* the scan raised: the except branch answers 500
ListarFail ==
    /\ page' = << >>
    /\ listResp' = Err500("scan failed")
    /\ UNCHANGED <<store, ingestVars>>

lambda_listar == ListarOk \/ ListarFail

(* ------------------------------------------------------- specifications *)
\* One ingest invocation at a time, again and again.  (In the ingest
\* specifications the loop of fetch_last_10 ends within one reading of the
\* clock; SpecNorm lets the clock run between its items.)
Next == Ingest(1, {"idle", "done"}, Payloads)

Spec == Init /\ [][Next]_vars

\* two ingest invocations racing on the table, each running once
NextRace == \E p \in Procs : Ingest(p, {"idle"}, RacePayloads)

SpecRace == Init /\ [][NextRace]_vars

\* fetch_last_10 alone, on every answer of the feed up to MaxBatch features
NextNorm == FetchOk(1, {"idle"}, NormPayloads, "item")

SpecNorm == Init /\ [][NextNorm]_vars

\* lambda_listar alone, on a table holding any items whatever: what other
\* writers and earlier versions left there is not the handler's to choose
ListCodes == {"A", "B", "C"}
ListRows(c) ==
    {[code |-> Some(c), fechaevento |-> fe, ingresado_ts |-> ts] :
        fe \in {None, Some(0), Some(1), Some(2)}, ts \in {Some(1), Some(3)}}
    \cup {[code |-> Some(c), ingresado_ts |-> Some(2)], [code |-> Some(c)]}

\* no item under c, or one
AtMostOne(c) == {{}} \cup {{r} : r \in ListRows(c)}

Tables ==
    {UNION {pick[c] : c \in ListCodes} :
        pick \in {f \in [ListCodes -> UNION {AtMostOne(c) : c \in ListCodes}] :
                     \A c \in ListCodes : f[c] \in AtMostOne(c)}}

InitTable ==
    /\ store \in Tables
    /\ InitIngest
    /\ InitList

NextList == lambda_listar

SpecList == InitTable /\ [][NextList]_vars

(* =============================================================== claims *)
Codes(table) == {r.code : r \in table}
OnePerCode(table) == \A r1 \in table : \A r2 \in table : r1.code = r2.code => r1 = r2
Done(p) == pc[p] = "done"
Succeeded(p) == Done(p) /\ outcome[p] = "ok"

\* the feature carries a natural code: a "code" that is there and not empty
HasNaturalCode(a) == a.code # None /\ a.code # Some("")

\* an invocation has just ingested, with success, the very payload its
\* previous successful run ingested, every feature carrying a natural code
Reingested(p) ==
    /\ Succeeded(p)
    /\ repeat[p]
    /\ \A i \in 1..Len(payload[p]) : HasNaturalCode(payload[p][i])

\* a record without its audit timestamp
WithoutTs(r) == [k \in DOMAIN r \ {"ingresado_ts"} |-> r[k]]

\* C1 as stated: ingesting an identical payload (every item with a natural
\* code) a second time leaves the store exactly as the first ingest left it:
\* the same codes and the same record under each.
C1_SecondIngestChangesNothing ==
    Reingested(1) => store = storeBefore[1]

\* C1 as amended: ingesting an identical payload a second time leaves the
\* store with the same codes, one record under each, and under each code a
\* record equal to the one the first ingest left in every field but
\* ingresado_ts.
C1_SecondIngestChangesOnlyTimestamp ==
    Reingested(1) =>
        /\ Codes(store) = Codes(storeBefore[1])
        /\ Cardinality(store) = Cardinality(storeBefore[1])
        /\ {WithoutTs(r) : r \in store} = {WithoutTs(r) : r \in storeBefore[1]}

\* a second ingest of a payload of two features ended, the clock having moved
C1_Witness ==
    /\ Reingested(1)
    /\ Len(payload[1]) = 2
    /\ store # storeBefore[1]

\* C2: after any sequence of ingest calls the store holds at most one
\* record per code, and the record under a code is exactly, field for field,
\* the record most recently committed for that code; every code committed
\* is still there.
C2_OneRecordPerCodeLastWriteWins ==
    /\ OnePerCode(store)
    /\ \A r \in store :
          /\ r.code[1] \in DOMAIN lastWritten
          /\ lastWritten[r.code[1]] = r
    /\ \A c \in DOMAIN lastWritten : Some(c) \in Codes(store)

\* a record with every optional field set was replaced, under the same code,
\* by one with none of them: nothing of the old one is left
C2_Witness ==
    /\ Done(1)
    /\ \E old \in storeBefore[1] : \E new \in store :
          /\ old.code = new.code
          /\ old.lat # None /\ old.fecha # None
          /\ new.lat = None /\ new.fecha = None

\* a dict holds a key whose value is None
HasNull(r) == \E k \in DOMAIN r : r[k] = None

\* C3: no record produced by normalization and no record held in the store
\* contains a key whose value is null.
C3_NoNullInRecords ==
    /\ \A p \in Procs : \A i \in 1..Len(items[p]) : ~HasNull(items[p][i])
    /\ \A r \in store : ~HasNull(r)

\* C4: when the fetch fails, ingest answers with a failure and the store is
\* exactly what it was when the call began.
C4_FetchFailureLeavesStore ==
    (Done(1) /\ outcome[1] = "fetch_error") =>
        /\ resp[1].statusCode = 500
        /\ "ingresados" \notin DOMAIN resp[1].body
        /\ store = storeBefore[1]

\* the fetch failed on a table that earlier ingests had filled
C4_Witness ==
    /\ Done(1)
    /\ outcome[1] = "fetch_error"
    /\ Cardinality(store) = 2

\* C5: when the store rejects writes of a batch, ingest answers with a
\* failure, never with a count and items, and the failure names the codes
\* whose writes failed.
C5_WriteFailureNamesCodes ==
    (Done(1) /\ outcome[1] = "write_error") =>
        /\ resp[1].statusCode = 500
        /\ "ingresados" \notin DOMAIN resp[1].body
        /\ "failedKeys" \in DOMAIN resp[1].body
        /\ resp[1].body.failedKeys = failed[1]

\* the last of the returned records that carries its code
LastOfCode(its, i) == \A j \in (i+1)..Len(its) : its[j].code # its[i].code

\* the response counts the features fetched and returns their normalized
\* records, in the feed's order
ReturnsNormalized(p) ==
    /\ resp[p].statusCode = 200
    /\ resp[p].body.ingresados = Len(payload[p])
    /\ Len(resp[p].body.items) = Len(payload[p])
    /\ \A i \in 1..Len(payload[p]) :
          \E t \in 1..MaxClock : \E u \in 0..MaxUuid :
             resp[p].body.items[i] = Normalize(payload[p][i], t, u)

\* C9 as stated: a successful ingest returns the count of the features
\* fetched and their normalized records, and right afterwards the store
\* holds every returned record, under its code, as returned.
C9_EveryReturnedRecordStored ==
    Succeeded(1) =>
        /\ ReturnsNormalized(1)
        /\ \A i \in 1..Len(resp[1].body.items) :
              \E r \in store : /\ r.code = resp[1].body.items[i].code
                               /\ r = resp[1].body.items[i]

\* C9 as amended: a successful ingest returns the count of the features
\* fetched and their normalized records, and right afterwards the store
\* holds, under each returned code, exactly one record, equal to the last
\* returned record with that code; k records with pairwise distinct codes
\* ingested into an empty store leave exactly k records.
C9_LastReturnedRecordPerCodeStored ==
    Succeeded(1) =>
        LET its == resp[1].body.items IN
        /\ ReturnsNormalized(1)
        /\ \A i \in 1..Len(its) :
              LastOfCode(its, i) =>
                 {r \in store : r.code = its[i].code} = {its[i]}
        /\ (storeBefore[1] = {} /\ \A i \in 1..Len(its) : LastOfCode(its, i))
              => Cardinality(store) = Len(its)

\* two features with different codes were ingested into an empty store
C9_Witness ==
    /\ Succeeded(1)
    /\ storeBefore[1] = {}
    /\ Len(resp[1].body.items) = 2
    /\ resp[1].body.items[1].code # resp[1].body.items[2].code
    /\ Cardinality(store) = 2

\* the records with code c that invocation p hands to the store
Hands(p, c) == {it \in Dedup(items[p]) : it.code = Some(c)}

\* C8: when two ingest invocations run concurrently and both write a record
\* for the same code, then in every interleaving, once both have ended, the
\* store holds under that code one record only, and it is the whole record
\* handed over by one of the two, namely the one the store committed last.
C8_RaceLeavesOneWholeRecord ==
    (Succeeded(1) /\ Succeeded(2)) =>
        \A c \in {"A", "B"} :
            (Hands(1, c) # {} /\ Hands(2, c) # {}) =>
                \E r \in Hands(1, c) \cup Hands(2, c) :
                    /\ {q \in store : q.code = Some(c)} = {r}
                    /\ lastWritten[c] = r

\* both invocations wrote code "A", with records that differ in their
\* fields, their puts interleaved with each other, and both have ended
C8_Witness ==
    /\ Succeeded(1) /\ Succeeded(2)
    /\ \E r1 \in Hands(1, "A") : \E r2 \in Hands(2, "A") :
          /\ r1.lat = None /\ r2.lat # None
          /\ r1 \in store
    /\ Len(items[1]) = 2

\* the codes of the features that carry a natural one
NaturalCodes(feats) ==
    {feats[i].code : i \in {k \in 1..Len(feats) : HasNaturalCode(feats[k])}}

\* C7: within one fetch every feature without a non-empty natural code gets
\* a non-empty generated code, different from the generated code of every
\* other such feature and from every natural code of the batch; so a batch
\* of k features whose natural codes are pairwise distinct yields k records
\* with pairwise distinct codes.
C7_GeneratedCodesDistinct ==
    pc[1] # "idle" =>
        LET feats == payload[1]
            its == items[1]
            n == Len(feats)
        IN
        /\ Len(its) = n
        /\ \A i \in 1..n :
              IF HasNaturalCode(feats[i])
                 THEN its[i].code = feats[i].code
                 ELSE /\ its[i].code # None
                      /\ its[i].code # Some("")
                      /\ its[i].code \notin NaturalCodes(feats)
                      /\ \A j \in 1..n :
                            (j # i /\ ~HasNaturalCode(feats[j]))
                               => its[j].code # its[i].code
        /\ (\A i \in 1..n : \A j \in 1..n :
               (i # j /\ HasNaturalCode(feats[i]) /\ HasNaturalCode(feats[j]))
                  => feats[i].code # feats[j].code)
              => Cardinality({its[i].code : i \in 1..n}) = n

\* a batch of two features, one without a code and one with an empty code
C7_Witness ==
    /\ pc[1] # "idle"
    /\ Len(payload[1]) = 2
    /\ payload[1][1].code = None
    /\ payload[1][2].code = Some("")
    /\ items[1][1].code # items[1][2].code

\* the record has the field, with a value
Has(r, k) == k \in DOMAIN r /\ r[k] # None

\* C10: for each of fecha, fechaevento and prof_km the normalized record has
\* the field if and only if the feature has the attribute with a non-null
\* value, 0 included, and then the field carries that value.  (A field held
\* with a null value is counted here as not there.)
C10_NumericFieldsPassThrough ==
    pc[1] # "idle" =>
        \A i \in 1..Len(payload[1]) :
            LET a == payload[1][i]
                r == items[1][i]
            IN
            /\ Has(r, "fecha") <=> a.fecha # None
            /\ Has(r, "fecha") => r.fecha = a.fecha
            /\ Has(r, "fechaevento") <=> a.fechaevento # None
            /\ Has(r, "fechaevento") => r.fechaevento = a.fechaevento
            /\ Has(r, "prof_km") <=> a.prof # None
            /\ Has(r, "prof_km") => r.prof_km = a.prof

\* the ranking key as the listing is described: fechaevento if the record has
\* it, whatever its value, else ingresado_ts, else zero.  (A field held with a
\* null value is counted here as not there.)
RankingKey(r) ==
    IF Has(r, "fechaevento") THEN r.fechaevento[1]
    ELSE IF Has(r, "ingresado_ts") THEN r.ingresado_ts[1]
    ELSE 0

\* C6: for every scanned page, list returns exactly min(TopN, page size)
\* records, all of the page, in descending order of the ranking key, and no
\* record left out has a ranking key above that of a returned one.
C6_TopOfPageByRankingKey ==
    listResp.statusCode = 200 =>
        LET its == listResp.body.items
            n == IF Len(page) < TopN THEN Len(page) ELSE TopN
        IN
        /\ listResp.body.count = n
        /\ Len(its) = n
        /\ \A i \in 1..n : \E k \in 1..Len(page) : its[i] = page[k]
        /\ \A i \in 1..n : \A j \in 1..n : i # j => its[i] # its[j]
        /\ \A i \in 1..n : \A j \in i..n :
              RankingKey(its[i]) >= RankingKey(its[j])
        /\ \A k \in 1..Len(page) :
              (\A i \in 1..n : its[i] # page[k]) =>
                 \A i \in 1..n : RankingKey(page[k]) <= RankingKey(its[i])

====
